---- MODULE Spec2Model ----
(***************************************************************************)
(* Cache helpers of the civitai server: queryCache / tagCacheKey /         *)
(* bustCacheTag, createCachedArray (fetch, bust, refresh) and              *)
(* cachedCounter (get, incrementBy, clear), over a shared redis store.     *)
(*                                                                         *)
(* Every `await` of the source is a suspension point: each redis command   *)
(* and each collaborator call is one atomic step of the calling process,   *)
(* and the synchronous code that follows it up to the next await belongs   *)
(* to the same step.  Time is counted in ticks; redis drops a key when its *)
(* expiry time is reached.                                                 *)
(***************************************************************************)
EXTENDS Integers, Sequences, FiniteSets, TLC

VARIABLES now, procs, cacheNotFound, appendFn, store, pc, loc, last,
          opCount, qstore, tagSets, cstore, fetchFn, acct

\* the query cache with its tag sets, the counters, the entity cache
queryVars == <<qstore, tagSets>>
counterVars == <<cstore, fetchFn, acct>>
entityVars == <<cacheNotFound, appendFn, store>>

vars == <<now, procs, cacheNotFound, appendFn, store, pc, loc, last,
          opCount, qstore, tagSets, cstore, fetchFn, acct>>

\* ---------------------------------------------------------------- bounds
Proc == {1, 2}
Ids == {1, 2}
Payloads == {"a"}
Queries == {"select 1", "select 2"}
Tags == {"t1", "t2"}
MaxIds == 2
MaxTime == 2
MaxOps == 3

\* instance options of createCachedArray, in ticks
ttl == 2
debounceTime == 1
\* chunk sizes of fetch (200 and 10000 in the source, scaled to the id lists)
mGetBatchSize == 1
lookupBatchSize == 1

\* ------------------------------------------------------- JS value helpers
Undefined == 0 - 1
NoExpiry == 0 - 1
NoPayload == "none"

\* a > b of JS on a possibly undefined left operand: undefined > x is false
JsGT(a, b) == a # Undefined /\ a > b

Range(s) == {s[i] : i \in DOMAIN s}

RECURSIVE chunk(_, _)
chunk(array, size) ==
  IF Len(array) = 0 THEN <<>>
  ELSE IF Len(array) <= size THEN <<array>>
  ELSE <<SubSeq(array, 1, size)>> \o chunk(SubSeq(array, size + 1, Len(array)), size)

\* [...new Set(ids)]: first occurrences, in order
RECURSIVE Dedupe(_)
Dedupe(ids) ==
  IF Len(ids) = 0 THEN <<>>
  ELSE LET front == Dedupe(SubSeq(ids, 1, Len(ids) - 1))
           x == ids[Len(ids)]
       IN IF x \in Range(front) THEN front ELSE Append(front, x)

IdLists == UNION {[1..n -> Ids] : n \in 0..MaxIds}

\* ------------------------------------------------------------ redis store
\* store is a partial function from key (the id of `${key}:${id}`) to
\* [val, exp]; a key outside its domain does not exist.
Exists(s, k) == k \in DOMAIN s

RedisSet(s, k, v, e) ==
  [x \in DOMAIN s \cup {k} |-> IF x = k THEN [val |-> v, exp |-> e] ELSE s[x]]

RedisSetNX_Overwrite(s, k, v) == RedisSet(s, k, v, NoExpiry)

RedisSetNX(s, k, v) ==
  IF Exists(s, k) THEN s ELSE RedisSet(s, k, v, NoExpiry)

RedisExpire(s, k, t, seconds) ==
  IF Exists(s, k) THEN [s EXCEPT ![k].exp = t + seconds] ELSE s

RedisDel_Keep(s, k) == s

RedisDel(s, k) == [x \in DOMAIN s \ {k} |-> s[x]]

\* keys whose expiry time has been reached are gone
Expire(s, t) ==
  [x \in {k \in DOMAIN s : s[k].exp = NoExpiry \/ s[k].exp > t} |-> s[x]]

ExAt_NoExpiry(t, ex) == NoExpiry

\* EX option of redis set: undefined means no expiry
ExAt(t, ex) == IF ex = Undefined THEN NoExpiry ELSE t + ex

\* --------------------------------------------------------- cache entries
Entity(id, payload) ==
  [id |-> id, payload |-> payload, notFound |-> FALSE, debounce |-> FALSE,
   cachedAt |-> Undefined]

WithCachedAt_Dropped(result, cachedAt) == result

\* { ...result, cachedAt }
WithCachedAt(result, cachedAt) == [result EXCEPT !.cachedAt = cachedAt]

\* { [idKey]: id, notFound: true, cachedAt }
NotFoundEntry(id, cachedAt) ==
  [id |-> id, payload |-> NoPayload, notFound |-> TRUE, debounce |-> FALSE,
   cachedAt |-> cachedAt]

DebounceEntry_NotFound(id) ==
  [id |-> id, payload |-> NoPayload, notFound |-> TRUE, debounce |-> FALSE,
   cachedAt |-> Undefined]

\* { [idKey]: id, debounce: true }
DebounceEntry(id) ==
  [id |-> id, payload |-> NoPayload, notFound |-> FALSE, debounce |-> TRUE,
   cachedAt |-> Undefined]

\* lookupFn(ids): the record of the entities found, d being what the source
\* of truth holds for each id of the batch at the time of the call
Sources(batch) == [Range(batch) -> Payloads \cup {NoPayload}]

lookupFn(d, batch) ==
  [i \in {x \in Range(batch) : d[x] # NoPayload} |-> Entity(i, d[i])]

ObjectAssign_SourceOnly(target, source) == source

\* Object.assign(target, source)
ObjectAssign(target, source) ==
  [k \in DOMAIN target \cup DOMAIN source |->
     IF k \in DOMAIN source THEN source[k] ELSE target[k]]

\* Object.fromEntries(cacheArray.map((x) => [x[idKey], x])): last one wins
RECURSIVE FromEntries(_)
FromEntries(cacheArray) ==
  IF Len(cacheArray) = 0 THEN <<>>
  ELSE LET x == cacheArray[Len(cacheArray)]
           rest == FromEntries(SubSeq(cacheArray, 1, Len(cacheArray) - 1))
       IN [k \in DOMAIN rest \cup {x.id} |-> IF k = x.id THEN x ELSE rest[k]]

\* ---------------------------------------------------------------- locals
\* locals of one call; lookupCalls, kvCalls, appendCalls and kept record
\* what the call did (kept: the ids whose setNX found the key taken), and so
\* do reads and writes (the redis commands that read, that write), force
\* (the second argument of the last lookupFn call), asked (the ids handed to
\* lookupFn), answers (what the source of truth held for them), maxKeys and
\* maxBatch (the longest argument of an mGet, of a lookupFn call), before
\* (the store as the call found it), error (an await of the call was
\* rejected), afterBust (the call before was a bust of the same single
\* id and its debounce window has elapsed), appended (the argument of
\* appendFn) and overtaken (the ids this fetch had looked up when another
\* caller issued a bust of them)
Idle ==
  [op |-> "none", ids |-> <<>>, batches |-> <<>>, cacheResults |-> <<>>,
   cache |-> <<>>, cacheMisses |-> <<>>, dontCache |-> {}, results |-> {},
   dbResults |-> <<>>, toCache |-> <<>>, toCacheNotFound |-> <<>>,
   toExpire |-> {}, pending |-> {}, toRemove |-> {}, cachedAt |-> Undefined,
   lookupCalls |-> 0, kvCalls |-> 0, appendCalls |-> 0, kept |-> {},
   reads |-> 0, writes |-> 0, force |-> FALSE, asked |-> {},
   answers |-> <<>>, maxKeys |-> 0, maxBatch |-> 0, before |-> <<>>,
   error |-> FALSE, afterBust |-> FALSE, appended |-> {},
   overtaken |-> {}]

\* the call that returned last; quiet: no key has expired since it returned,
\* at: the time it returned, kept for a bust
NoOp ==
  [op |-> "none", ids |-> <<>>, ret |-> {}, debounced |-> {},
   notReturned |-> {}, lookupCalls |-> 0, quiet |-> TRUE, at |-> 0,
   afterBust |-> FALSE]

\* a result set compared by identifier and entity payload
Payload(results) == {<<x.id, x.payload>> : x \in results}

\* ------------------------------------------------- createCachedArray.fetch
\* the partition loop of fetch over [...new Set(ids)]
IsMiss_TombstoneMisses(cache, id) ==
  IF id \in DOMAIN cache
  THEN cache[id].notFound \/ cache[id].debounce
  ELSE TRUE

IsMiss(cache, id) ==
  IF id \in DOMAIN cache
  THEN ~cache[id].notFound /\ cache[id].debounce
  ELSE TRUE

IsDontCache(cache, cutoff, id) ==
  /\ id \in DOMAIN cache
  /\ ~cache[id].notFound
  /\ cache[id].debounce
  /\ JsGT(cache[id].cachedAt, cutoff)

IsHit(cache, id) ==
  id \in DOMAIN cache /\ ~cache[id].notFound /\ ~cache[id].debounce

Partition(l, t) ==
  LET cache == FromEntries(l.cacheResults)
      cacheDebounceCutoff == t - debounceTime
      uniq == Dedupe(l.ids)
  IN [l EXCEPT
        !.cache = cache,
        !.cacheMisses = SelectSeq(uniq, LAMBDA id : IsMiss(cache, id)),
        !.dontCache = {id \in Range(uniq) :
                         IsDontCache(cache, cacheDebounceCutoff, id)},
        !.results = {cache[id] : id \in {x \in Range(uniq) : IsHit(cache, x)}},
        !.batches = chunk(SelectSeq(uniq, LAMBDA id : IsMiss(cache, id)),
                          lookupBatchSize)]

WriteBack_NothingCached(l, t) ==
  LET misses == Range(l.cacheMisses)
      found == {id \in misses : id \in DOMAIN l.dbResults}
      absent == IF cacheNotFound THEN misses \ found ELSE {}
  IN [l EXCEPT
        !.cachedAt = t,
        !.results = l.results \cup {l.dbResults[id] : id \in found},
        !.toCacheNotFound = [id \in absent |-> NotFoundEntry(id, t)],
        !.toExpire = absent]

WriteBack_AlwaysNotFound(l, t) ==
  LET misses == Range(l.cacheMisses)
      found == {id \in misses : id \in DOMAIN l.dbResults}
      absent == misses \ found
  IN [l EXCEPT
        !.cachedAt = t,
        !.results = l.results \cup {l.dbResults[id] : id \in found},
        !.toCache = [id \in found \ l.dontCache |->
                       WithCachedAt(l.dbResults[id], t)],
        !.toCacheNotFound = [id \in absent |-> NotFoundEntry(id, t)],
        !.toExpire = absent]

\* the loop over cacheMisses after the lookups
WriteBack(l, t) ==
  LET misses == Range(l.cacheMisses)
      found == {id \in misses : id \in DOMAIN l.dbResults}
      absent == IF cacheNotFound THEN misses \ found ELSE {}
  IN [l EXCEPT
        !.cachedAt = t,
        !.results = l.results \cup {l.dbResults[id] : id \in found},
        !.toCache = [id \in found \ l.dontCache |->
                       WithCachedAt(l.dbResults[id], t)],
        !.toCacheNotFound = [id \in absent |-> NotFoundEntry(id, t)],
        !.toExpire = absent]

FetchPc_AppendFirst(l) ==
  IF l.batches # <<>> THEN "lookup"
  ELSE IF appendFn THEN "append"
  ELSE IF DOMAIN l.toCache # {} THEN "set"
  ELSE IF DOMAIN l.toCacheNotFound # {} \/ l.toExpire # {} THEN "setNX"
  ELSE "done"

\* where fetch is suspended next, given its locals
FetchPc(l) ==
  IF l.batches # <<>> THEN "lookup"
  ELSE IF DOMAIN l.toCache # {} THEN "set"
  ELSE IF DOMAIN l.toCacheNotFound # {} \/ l.toExpire # {} THEN "setNX"
  ELSE IF appendFn THEN "append"
  ELSE "done"

Drop(f, k) == [x \in DOMAIN f \ {k} |-> f[x]]

FetchStart(p, ids) ==
  /\ pc[p] = "idle" /\ p \in procs /\ opCount < MaxOps
  /\ opCount' = opCount + 1
  /\ IF Len(ids) = 0
     THEN /\ pc' = [pc EXCEPT ![p] = "done"]
          /\ loc' = [loc EXCEPT ![p] =
                       [Idle EXCEPT !.op = "fetch", !.before = store]]
     ELSE /\ pc' = [pc EXCEPT ![p] = "mGet"]
          /\ loc' = [loc EXCEPT ![p] =
                       [Idle EXCEPT !.op = "fetch", !.ids = ids,
                                    !.before = store,
                                    !.afterBust =
                                       /\ last.op = "bust" /\ last.ids = ids
                                       /\ Len(ids) = 1
                                       /\ now - last.at >= debounceTime,
                                    !.batches = chunk(ids, mGetBatchSize)]]
  /\ UNCHANGED <<now, procs, cacheNotFound, appendFn, store, last,
                 queryVars, counterVars>>

\* one redis.packed.mGet; after the last one the partition runs
FetchMGet(p) ==
  /\ pc[p] = "mGet"
  /\ LET l == loc[p]
         batch == Head(l.batches)
         hits == SelectSeq(batch, LAMBDA id : Exists(store, id))
         batchResults == [i \in 1..Len(hits) |-> store[hits[i]].val]
         l1 == [l EXCEPT !.cacheResults = l.cacheResults \o batchResults,
                         !.batches = Tail(l.batches),
                         !.kvCalls = l.kvCalls + 1,
                         !.reads = l.reads + 1,
                         !.maxKeys = IF Len(batch) > l.maxKeys
                                     THEN Len(batch) ELSE l.maxKeys]
         l2 == IF l1.batches = <<>> THEN Partition(l1, now) ELSE l1
     IN /\ loc' = [loc EXCEPT ![p] = l2]
        /\ pc' = [pc EXCEPT ![p] =
                    IF l1.batches # <<>> THEN "mGet" ELSE FetchPc(l2)]
  /\ UNCHANGED <<now, procs, cacheNotFound, appendFn, store, last, opCount,
                 queryVars, counterVars>>

\* one lookupFn call; after the last one the write-back is prepared
FetchLookup(p, d) ==
  /\ pc[p] = "lookup"
  /\ d \in Sources(Head(loc[p].batches))
  /\ LET l == loc[p]
         batchResults == lookupFn(d, Head(l.batches))
         l1 == [l EXCEPT !.dbResults = ObjectAssign(l.dbResults, batchResults),
                         !.batches = Tail(l.batches),
                         !.lookupCalls = l.lookupCalls + 1,
                         !.force = FALSE,
                         !.asked = l.asked \cup Range(Head(l.batches)),
                         !.answers = [k \in DOMAIN l.answers \cup DOMAIN d |->
                                        IF k \in DOMAIN d THEN d[k]
                                        ELSE l.answers[k]],
                         !.maxBatch = IF Len(Head(l.batches)) > l.maxBatch
                                      THEN Len(Head(l.batches))
                                      ELSE l.maxBatch]
         l2 == IF l1.batches = <<>> THEN WriteBack(l1, now) ELSE l1
     IN /\ loc' = [loc EXCEPT ![p] = l2]
        /\ pc' = [pc EXCEPT ![p] = FetchPc(l2)]
  /\ UNCHANGED <<now, procs, cacheNotFound, appendFn, store, last, opCount,
                 queryVars, counterVars>>

\* a rejected await is not caught: the async function ends there and its
\* promise is rejected with the same error
Rejected(l) == [l EXCEPT !.error = TRUE]

FailPc_Swallowed(l) == IF l.op = "fetch" THEN "append" ELSE "done"

FailPc(l) == "failed"

\* a lookupFn call of fetch that fails
FetchLookupFails(p) ==
  /\ pc[p] = "lookup"
  /\ LET l == [loc[p] EXCEPT
                 !.lookupCalls = loc[p].lookupCalls + 1,
                 !.asked = loc[p].asked \cup Range(Head(loc[p].batches))]
     IN /\ loc' = [loc EXCEPT ![p] = Rejected(l)]
        /\ pc' = [pc EXCEPT ![p] = FailPc(l)]
  /\ UNCHANGED <<now, procs, cacheNotFound, appendFn, store, last, opCount,
                 queryVars, counterVars>>

\* one redis.packed.set(`${key}:${id}`, cache, { EX: ttl }) of Promise.all
FetchSet(p, id) ==
  /\ pc[p] = "set"
  /\ id \in DOMAIN loc[p].toCache
  /\ store' = RedisSet(store, id, loc[p].toCache[id], ExAt(now, ttl))
  /\ LET l == [loc[p] EXCEPT !.toCache = Drop(loc[p].toCache, id),
                             !.kvCalls = loc[p].kvCalls + 1,
                             !.writes = loc[p].writes + 1]
     IN /\ loc' = [loc EXCEPT ![p] = l]
        /\ pc' = [pc EXCEPT ![p] = FetchPc(l)]
  /\ UNCHANGED <<now, procs, cacheNotFound, appendFn, last, opCount,
                 queryVars, counterVars>>

\* redis.packed.setNX(`${key}:${id}`, cache)
FetchSetNX(p, id) ==
  /\ pc[p] = "setNX"
  /\ id \in DOMAIN loc[p].toCacheNotFound
  /\ store' = RedisSetNX(store, id, loc[p].toCacheNotFound[id])
  /\ LET l == [loc[p] EXCEPT
                 !.toCacheNotFound = Drop(loc[p].toCacheNotFound, id),
                 !.kept = IF Exists(store, id) THEN loc[p].kept \cup {id}
                          ELSE loc[p].kept,
                 !.kvCalls = loc[p].kvCalls + 1,
                 !.writes = loc[p].writes + 1]
     IN /\ loc' = [loc EXCEPT ![p] = l]
        /\ pc' = [pc EXCEPT ![p] = FetchPc(l)]
  /\ UNCHANGED <<now, procs, cacheNotFound, appendFn, last, opCount,
                 queryVars, counterVars>>

\* redis.expire(`${key}:${id}`, ttl), issued right after the setNX of id
FetchExpire(p, id) ==
  /\ pc[p] = "setNX"
  /\ id \in loc[p].toExpire
  /\ id \notin DOMAIN loc[p].toCacheNotFound
  /\ store' = RedisExpire(store, id, now, ttl)
  /\ LET l == [loc[p] EXCEPT !.toExpire = loc[p].toExpire \ {id},
                             !.kvCalls = loc[p].kvCalls + 1,
                             !.writes = loc[p].writes + 1]
     IN /\ loc' = [loc EXCEPT ![p] = l]
        /\ pc' = [pc EXCEPT ![p] = FetchPc(l)]
  /\ UNCHANGED <<now, procs, cacheNotFound, appendFn, last, opCount,
                 queryVars, counterVars>>

\* if (appendFn) await appendFn(results)
FetchAppend(p) ==
  /\ pc[p] = "append"
  /\ loc' = [loc EXCEPT ![p].appendCalls = loc[p].appendCalls + 1,
                        ![p].appended = loc[p].results]
  /\ pc' = [pc EXCEPT ![p] = "done"]
  /\ UNCHANGED <<now, procs, cacheNotFound, appendFn, store, last, opCount,
                 queryVars, counterVars>>

\* -------------------------------------------------- createCachedArray.bust
BustStart(p, ids) ==
  /\ pc[p] = "idle" /\ p \in procs /\ opCount < MaxOps
  /\ opCount' = opCount + 1
  /\ loc' = [q \in Proc |->
               IF q = p
               THEN [Idle EXCEPT !.op = "bust", !.ids = ids,
                                 !.pending = 1..Len(ids)]
               ELSE IF loc[q].op = "fetch"
               THEN [loc[q] EXCEPT !.overtaken =
                       loc[q].overtaken \cup (loc[q].asked \cap Range(ids))]
               ELSE loc[q]]
  /\ pc' = [pc EXCEPT ![p] = IF Len(ids) = 0 THEN "done" ELSE "bustSet"]
  /\ UNCHANGED <<now, procs, cacheNotFound, appendFn, store, last,
                 queryVars, counterVars>>

\* one redis.packed.set(key, { [idKey]: id, debounce: true }, { EX: debounceTime })
BustSet(p, i) ==
  /\ pc[p] = "bustSet"
  /\ i \in loc[p].pending
  /\ LET id == loc[p].ids[i]
     IN store' = RedisSet(store, id, DebounceEntry(id), ExAt(now, debounceTime))
  /\ loc' = [loc EXCEPT ![p].pending = loc[p].pending \ {i},
                        ![p].kvCalls = loc[p].kvCalls + 1,
                        ![p].writes = loc[p].writes + 1]
  /\ pc' = [pc EXCEPT ![p] =
              IF loc[p].pending = {i} THEN "done" ELSE "bustSet"]
  /\ UNCHANGED <<now, procs, cacheNotFound, appendFn, last, opCount,
                 queryVars, counterVars>>

\* ----------------------------------------------- createCachedArray.refresh
RefreshPc_NoDel(l) ==
  IF DOMAIN l.toCache # {} THEN "refreshSet"
  ELSE "done"

\* where refresh is suspended next, given its locals
RefreshPc(l) ==
  IF DOMAIN l.toCache # {} THEN "refreshSet"
  ELSE IF l.toRemove # {} THEN "refreshDel"
  ELSE "done"

RefreshStart(p, ids) ==
  /\ pc[p] = "idle" /\ p \in procs /\ opCount < MaxOps
  /\ opCount' = opCount + 1
  /\ loc' = [loc EXCEPT ![p] = [Idle EXCEPT !.op = "refresh", !.ids = ids]]
  /\ pc' = [pc EXCEPT ![p] = "refreshLookup"]
  /\ UNCHANGED <<now, procs, cacheNotFound, appendFn, store, last,
                 queryVars, counterVars>>

\* lookupFn(id, true), then the set commands are issued
RefreshLookup(p, d) ==
  /\ pc[p] = "refreshLookup"
  /\ d \in Sources(loc[p].ids)
  /\ LET l == loc[p]
         results == lookupFn(d, l.ids)
         l1 == [l EXCEPT
                  !.dbResults = results,
                  !.cachedAt = now,
                  !.lookupCalls = l.lookupCalls + 1,
                  !.force = TRUE,
                  !.asked = Range(l.ids),
                  !.answers = d,
                  !.toCache = [id \in DOMAIN results |->
                                 WithCachedAt(results[id], now)],
                  !.toRemove = {i \in 1..Len(l.ids) :
                                  l.ids[i] \notin DOMAIN results}]
     IN /\ loc' = [loc EXCEPT ![p] = l1]
        /\ pc' = [pc EXCEPT ![p] = RefreshPc(l1)]
  /\ UNCHANGED <<now, procs, cacheNotFound, appendFn, store, last, opCount,
                 queryVars, counterVars>>

\* redis.packed.set(`${key}:${id}`, { ...x, cachedAt }): the { EX: ttl }
\* object is the second argument of map, so the set carries no options
RefreshSet(p, id) ==
  /\ pc[p] = "refreshSet"
  /\ id \in DOMAIN loc[p].toCache
  /\ store' = RedisSet(store, id, loc[p].toCache[id], ExAt(now, Undefined))
  /\ LET l == [loc[p] EXCEPT !.toCache = Drop(loc[p].toCache, id),
                             !.kvCalls = loc[p].kvCalls + 1,
                             !.writes = loc[p].writes + 1]
     IN /\ loc' = [loc EXCEPT ![p] = l]
        /\ pc' = [pc EXCEPT ![p] = RefreshPc(l)]
  /\ UNCHANGED <<now, procs, cacheNotFound, appendFn, last, opCount,
                 queryVars, counterVars>>

\* one redis.del(`${key}:${id}`) of toRemove
RefreshDel(p, i) ==
  /\ pc[p] = "refreshDel"
  /\ i \in loc[p].toRemove
  /\ store' = RedisDel(store, loc[p].ids[i])
  /\ LET l == [loc[p] EXCEPT !.toRemove = loc[p].toRemove \ {i},
                             !.kvCalls = loc[p].kvCalls + 1,
                             !.writes = loc[p].writes + 1]
     IN /\ loc' = [loc EXCEPT ![p] = l]
        /\ pc' = [pc EXCEPT ![p] = RefreshPc(l)]
  /\ UNCHANGED <<now, procs, cacheNotFound, appendFn, last, opCount,
                 queryVars, counterVars>>

\* ------------------------------------------------------ return, environment
\* the call returns to its caller
Return(p) ==
  /\ pc[p] \in {"done", "failed"}
  /\ loc[p].op \in {"fetch", "bust", "refresh"}
  /\ last' = [op |-> IF loc[p].error THEN "failed" ELSE loc[p].op,
              ids |-> loc[p].ids,
              ret |-> IF loc[p].error THEN {} ELSE Payload(loc[p].results),
              debounced |-> {id \in DOMAIN loc[p].cache :
                               loc[p].cache[id].debounce},
              notReturned |-> Range(loc[p].cacheMisses) \ DOMAIN loc[p].dbResults,
              lookupCalls |-> loc[p].lookupCalls,
              quiet |-> TRUE,
              at |-> IF loc[p].op = "bust" THEN now ELSE 0,
              afterBust |-> loc[p].afterBust]
  /\ loc' = [loc EXCEPT ![p] = Idle]
  /\ pc' = [pc EXCEPT ![p] = "idle"]
  /\ UNCHANGED <<now, procs, cacheNotFound, appendFn, store, opCount,
                 queryVars, counterVars>>

\* a second passes between calls; redis drops the keys whose expiry is
\* reached (a call is taken to be short against the clock's unit)
Tick ==
  /\ now < MaxTime
  /\ \A q \in Proc : pc[q] = "idle"
  /\ now' = now + 1
  /\ store' = Expire(store, now + 1)
  /\ qstore' = Expire(qstore, now + 1)
  /\ cstore' = Expire(cstore, now + 1)
  /\ last' = IF \/ DOMAIN store # DOMAIN Expire(store, now + 1)
                \/ DOMAIN qstore # DOMAIN Expire(qstore, now + 1)
                \/ DOMAIN cstore # DOMAIN Expire(cstore, now + 1)
             THEN [last EXCEPT !.quiet = FALSE] ELSE last
  /\ acct' = [id \in DOMAIN acct |->
                IF id \in DOMAIN cstore /\ id \notin DOMAIN Expire(cstore, now + 1)
                THEN [acct[id] EXCEPT !.pure = FALSE] ELSE acct[id]]
  /\ UNCHANGED <<procs, cacheNotFound, appendFn, pc, loc, opCount, tagSets,
                 fetchFn>>

\* the parts of the state a specification does not use
NoQuery == qstore = <<>> /\ tagSets = [t \in Tags |-> {}]
NoCounter == cstore = <<>> /\ fetchFn = <<>> /\ acct = <<>>
NoEntity == cacheNotFound = TRUE /\ appendFn = TRUE /\ store = <<>>

InitEntity ==
  /\ now = 0
  /\ procs = {1}
  /\ cacheNotFound \in BOOLEAN
  /\ appendFn = TRUE
  /\ store = <<>>
  /\ pc = [p \in Proc |-> "idle"]
  /\ loc = [p \in Proc |-> Idle]
  /\ last = NoOp
  /\ opCount = 0
  /\ NoQuery /\ NoCounter

NextEntity ==
  \/ \E p \in Proc, ids \in IdLists : FetchStart(p, ids)
  \/ \E p \in Proc : FetchMGet(p)
  \/ \E p \in Proc, d \in UNION {[S -> Payloads \cup {NoPayload}] : S \in SUBSET Ids} :
       FetchLookup(p, d)
  \/ \E p \in Proc : FetchLookupFails(p)
  \/ \E p \in Proc, id \in Ids : FetchSet(p, id)
  \/ \E p \in Proc, id \in Ids : FetchSetNX(p, id)
  \/ \E p \in Proc, id \in Ids : FetchExpire(p, id)
  \/ \E p \in Proc : FetchAppend(p)
  \/ \E p \in Proc, ids \in IdLists : BustStart(p, ids)
  \/ \E p \in Proc, i \in 1..MaxIds : BustSet(p, i)
  \/ \E p \in Proc, ids \in IdLists : RefreshStart(p, ids)
  \/ \E p \in Proc, d \in UNION {[S -> Payloads \cup {NoPayload}] : S \in SUBSET Ids} :
       RefreshLookup(p, d)
  \/ \E p \in Proc, id \in Ids : RefreshSet(p, id)
  \/ \E p \in Proc, i \in 1..MaxIds : RefreshDel(p, i)
  \/ \E p \in Proc : Return(p)
  \/ Tick

SpecEntity == InitEntity /\ [][NextEntity]_vars

\* two callers racing on the same instance
InitEntityConc ==
  /\ now = 0
  /\ procs = {1, 2}
  /\ cacheNotFound = TRUE
  /\ appendFn = TRUE
  /\ store = <<>>
  /\ pc = [p \in Proc |-> "idle"]
  /\ loc = [p \in Proc |-> Idle]
  /\ last = NoOp
  /\ opCount = 1
  /\ NoQuery /\ NoCounter

SpecEntityConc == InitEntityConc /\ [][NextEntity]_vars


\* ================================================================ queryCache
\* options.ttl given to run, in ticks
queryTtl == 2

\* JS values a run handles: null, or the array of rows
JsNull == [type |-> "null", items |-> <<>>]
JsArray(items) == [type |-> "array", items |-> items]

Truthy_EmptyArrayFalsy(v) == v.type # "null" /\ v.items # <<>>

\* truthiness of JS: null is falsy, every array (also the empty one) truthy
Truthy(v) == v.type # "null"

\* what db.$queryRaw can return
Results == {<<>>, <<"row">>}

\* tag: string | string[], or absent
NoTag == [kind |-> "undefined", items |-> <<>>]
TagArgs ==
  {[kind |-> "string", items |-> <<"t1">>],
   [kind |-> "array", items |-> <<"t1", "t2">>],
   [kind |-> "array", items |-> <<>>]}

\* if (options?.tag): undefined is falsy, a string or an array is truthy
TagGiven(tag) == tag.kind # "undefined"

\* Array.isArray(tag) ? tag : [tag]
TagList(tag) == tag.items

NoOptions == [defined |-> FALSE, ttl |-> Undefined, tag |-> NoTag]
Options ==
  {NoOptions} \cup
  [defined : {TRUE}, ttl : {0, queryTtl}, tag : TagArgs \cup {NoTag}]

\* options?.ttl
OptTtl(options) == IF options.defined THEN options.ttl ELSE Undefined

IsBypass_Never(options) == FALSE

\* options?.ttl === 0
IsBypass(options) == OptTtl(options) = 0

\* the queryCache instance: queryCache(db, key, version)
key == "ns"
version == "undefined"

isDefined(x) == x # "undefined"

\* content hash of the query, one per query text
hashifyObject(query) == IF query = "select 1" THEN "h1" ELSE "h2"

\* [key, version, hashifyObject(query).toString()].filter(isDefined).join(':')
CacheKey(query) ==
  SelectSeq(<<key, version, hashifyObject(query)>>, isDefined)

CacheKeys == {CacheKey(query) : query \in Queries}

\* redis.packed.get: the value, or null when the key does not exist
RedisGet(s, k) == IF Exists(s, k) THEN s[k].val ELSE JsNull

QIdle ==
  [op |-> "none", query |-> "", options |-> NoOptions, cacheKey |-> <<>>,
   cachedData |-> JsNull, result |-> JsNull, ret |-> JsNull,
   tags |-> <<>>, keys |-> {}, tag |-> "", arg |-> <<>>, deleted |-> {},
   dbCalls |-> 0, kvCalls |-> 0, error |-> FALSE,
   before |-> [qstore |-> <<>>, tagSets |-> <<>>]]

QNoOp ==
  [op |-> "none", cacheKey |-> <<>>, options |-> NoOptions, ret |-> JsNull,
   tags |-> {}, deleted |-> {}, dbCalls |-> 0, quiet |-> TRUE]

\* arg: the tags given to bustCacheTag; deleted: the entries it removed that
\* a run had written with the tag being busted

\* the returned function of queryCache, up to its first await
RunStart(p, query, options) ==
  /\ pc[p] = "idle" /\ p \in procs /\ opCount < MaxOps
  /\ opCount' = opCount + 1
  /\ loc' = [loc EXCEPT ![p] =
               [QIdle EXCEPT !.op = "run", !.query = query,
                             !.options = options,
                             !.before = [qstore |-> qstore,
                                         tagSets |-> tagSets],
                             !.cacheKey = IF IsBypass(options) THEN <<>>
                                          ELSE CacheKey(query)]]
  /\ pc' = [pc EXCEPT ![p] = IF IsBypass(options) THEN "bypass" ELSE "get"]
  /\ UNCHANGED <<now, procs, last, queryVars, counterVars, entityVars>>

\* return db.$queryRaw<T>(query)
RunBypass(p, rows) ==
  /\ pc[p] = "bypass"
  /\ loc' = [loc EXCEPT ![p].result = JsArray(rows),
                        ![p].ret = JsArray(rows),
                        ![p].dbCalls = loc[p].dbCalls + 1]
  /\ pc' = [pc EXCEPT ![p] = "done"]
  /\ UNCHANGED <<now, procs, last, opCount, queryVars, counterVars, entityVars>>

\* redis.packed.get<T>(cacheKey) and the test of cachedData
RunGet(p) ==
  /\ pc[p] = "get"
  /\ LET cachedData == RedisGet(qstore, loc[p].cacheKey)
         hit == Truthy(cachedData) /\ OptTtl(loc[p].options) # 0
     IN /\ loc' = [loc EXCEPT ![p].cachedData = cachedData,
                              ![p].ret = IF hit THEN cachedData ELSE JsNull,
                              ![p].kvCalls = loc[p].kvCalls + 1]
        /\ pc' = [pc EXCEPT ![p] = IF hit THEN "done" ELSE "query"]
  /\ UNCHANGED <<now, procs, last, opCount, queryVars, counterVars, entityVars>>

\* const result = await db.$queryRaw<T>(query)
RunQuery(p, rows) ==
  /\ pc[p] = "query"
  /\ loc' = [loc EXCEPT ![p].result = JsArray(rows),
                        ![p].dbCalls = loc[p].dbCalls + 1]
  /\ pc' = [pc EXCEPT ![p] = "qset"]
  /\ UNCHANGED <<now, procs, last, opCount, queryVars, counterVars, entityVars>>

\* db.$queryRaw fails, on the bypass path or after a miss
RunQueryFails(p) ==
  /\ pc[p] \in {"bypass", "query"}
  /\ LET l == [loc[p] EXCEPT !.dbCalls = loc[p].dbCalls + 1]
     IN /\ loc' = [loc EXCEPT ![p] = Rejected(l)]
        /\ pc' = [pc EXCEPT ![p] = FailPc(l)]
  /\ UNCHANGED <<now, procs, last, opCount, queryVars, counterVars, entityVars>>

\* redis.packed.set(cacheKey, result, { EX: options?.ttl }); by: the tags of
\* the run that wrote the entry
RunSet(p) ==
  /\ pc[p] = "qset"
  /\ LET l == loc[p]
         given == TagGiven(l.options.tag)
         cell == [val |-> l.result, exp |-> ExAt(now, OptTtl(l.options)),
                  by |-> IF given THEN Range(TagList(l.options.tag)) ELSE {}]
         tags == IF given THEN TagList(l.options.tag) ELSE <<>>
     IN /\ qstore' = [k \in DOMAIN qstore \cup {l.cacheKey} |->
                        IF k = l.cacheKey THEN cell ELSE qstore[k]]
        /\ loc' = [loc EXCEPT ![p].tags = tags,
                              ![p].ret = IF tags = <<>> THEN l.result ELSE JsNull,
                              ![p].kvCalls = l.kvCalls + 1]
        /\ pc' = [pc EXCEPT ![p] = IF tags = <<>> THEN "done" ELSE "sAdd"]
  /\ UNCHANGED <<now, procs, last, opCount, tagSets, counterVars, entityVars>>

\* tagCacheKey: one redis.sAdd(`tag:${tag}`, key)
TagCacheKey(p) ==
  /\ pc[p] = "sAdd"
  /\ LET l == loc[p]
         tag == Head(l.tags)
     IN /\ tagSets' = [tagSets EXCEPT ![tag] = tagSets[tag] \cup {l.cacheKey}]
        /\ loc' = [loc EXCEPT ![p].tags = Tail(l.tags),
                              ![p].ret = IF Tail(l.tags) = <<>> THEN l.result
                                         ELSE JsNull,
                              ![p].kvCalls = l.kvCalls + 1]
        /\ pc' = [pc EXCEPT ![p] = IF Tail(l.tags) = <<>> THEN "done" ELSE "sAdd"]
  /\ UNCHANGED <<now, procs, last, opCount, qstore, counterVars, entityVars>>

\* -------------------------------------------------------------- bustCacheTag
BustTagStart(p, tag) ==
  /\ pc[p] = "idle" /\ p \in procs /\ opCount < MaxOps
  /\ opCount' = opCount + 1
  /\ loc' = [loc EXCEPT ![p] =
               [QIdle EXCEPT !.op = "bustCacheTag", !.tags = TagList(tag),
                             !.arg = TagList(tag)]]
  /\ pc' = [pc EXCEPT ![p] = IF TagList(tag) = <<>> THEN "done" ELSE "sMembers"]
  /\ UNCHANGED <<now, procs, last, queryVars, counterVars, entityVars>>

\* where bustCacheTag is suspended next: in the loop over keys, at the del
\* of the tag set, at the next tag, or nowhere
BustTagPc(l) ==
  IF l.keys # {} THEN "delKey"
  ELSE IF l.tag # "" THEN "delTag"
  ELSE IF l.tags # <<>> THEN "sMembers"
  ELSE "done"

\* const keys = await redis.packed.sMembers<string>(`tag:${tag}`)
BustTagMembers(p) ==
  /\ pc[p] = "sMembers"
  /\ LET l == [loc[p] EXCEPT !.tag = Head(loc[p].tags),
                             !.tags = Tail(loc[p].tags),
                             !.keys = tagSets[Head(loc[p].tags)],
                             !.kvCalls = loc[p].kvCalls + 1]
     IN /\ loc' = [loc EXCEPT ![p] = l]
        /\ pc' = [pc EXCEPT ![p] = BustTagPc(l)]
  /\ UNCHANGED <<now, procs, last, opCount, queryVars, counterVars, entityVars>>

\* for (const key of keys) await redis.del(key), in the order of the reply
BustTagDelKey(p, k) ==
  /\ pc[p] = "delKey"
  /\ k \in loc[p].keys
  /\ qstore' = RedisDel(qstore, k)
  /\ LET l == [loc[p] EXCEPT !.keys = loc[p].keys \ {k},
                             !.deleted = loc[p].deleted \cup
                               {x \in {k} \cap DOMAIN qstore :
                                  loc[p].tag \in qstore[x].by},
                             !.kvCalls = loc[p].kvCalls + 1]
     IN /\ loc' = [loc EXCEPT ![p] = l]
        /\ pc' = [pc EXCEPT ![p] = BustTagPc(l)]
  /\ UNCHANGED <<now, procs, last, opCount, tagSets, counterVars, entityVars>>

\* await redis.del(`tag:${tag}`)
BustTagDelTag(p) ==
  /\ pc[p] = "delTag"
  /\ tagSets' = [tagSets EXCEPT ![loc[p].tag] = {}]
  /\ LET l == [loc[p] EXCEPT !.tag = "", !.kvCalls = loc[p].kvCalls + 1]
     IN /\ loc' = [loc EXCEPT ![p] = l]
        /\ pc' = [pc EXCEPT ![p] = BustTagPc(l)]
  /\ UNCHANGED <<now, procs, last, opCount, qstore, counterVars, entityVars>>

\* run or bustCacheTag returns to its caller
QReturn(p) ==
  /\ pc[p] \in {"done", "failed"}
  /\ loc[p].op \in {"run", "bustCacheTag"}
  /\ last' = [op |-> IF loc[p].error THEN "failed" ELSE loc[p].op,
              cacheKey |-> loc[p].cacheKey,
              options |-> loc[p].options, ret |-> loc[p].ret,
              tags |-> {}, deleted |-> loc[p].deleted,
              dbCalls |-> loc[p].dbCalls, quiet |-> TRUE]
  /\ loc' = [loc EXCEPT ![p] = QIdle]
  /\ pc' = [pc EXCEPT ![p] = "idle"]
  /\ UNCHANGED <<now, procs, opCount, queryVars, counterVars, entityVars>>

InitQuery ==
  /\ now = 0
  /\ procs = {1}
  /\ pc = [p \in Proc |-> "idle"]
  /\ loc = [p \in Proc |-> QIdle]
  /\ last = QNoOp
  /\ opCount = 0
  /\ NoQuery /\ NoCounter /\ NoEntity

NextQuery ==
  \/ \E p \in Proc, query \in Queries, options \in Options :
       RunStart(p, query, options)
  \/ \E p \in Proc, rows \in Results : RunBypass(p, rows)
  \/ \E p \in Proc : RunGet(p)
  \/ \E p \in Proc, rows \in Results : RunQuery(p, rows)
  \/ \E p \in Proc : RunQueryFails(p)
  \/ \E p \in Proc : RunSet(p)
  \/ \E p \in Proc : TagCacheKey(p)
  \/ \E p \in Proc, tag \in TagArgs : BustTagStart(p, tag)
  \/ \E p \in Proc : BustTagMembers(p)
  \/ \E p \in Proc, k \in CacheKeys : BustTagDelKey(p, k)
  \/ \E p \in Proc : BustTagDelTag(p)
  \/ \E p \in Proc : QReturn(p)
  \/ Tick

SpecQuery == InitQuery /\ [][NextQuery]_vars

\* two callers racing on the same store
InitQueryConc ==
  /\ now = 0
  /\ procs = {1, 2}
  /\ pc = [p \in Proc |-> "idle"]
  /\ loc = [p \in Proc |-> QIdle]
  /\ last = QNoOp
  /\ opCount = 1
  /\ NoQuery /\ NoCounter /\ NoEntity

SpecQueryConc == InitQueryConc /\ [][NextQuery]_vars

\* one caller that uses an entity cache and the query cache side by side
InitCaches ==
  /\ now = 0
  /\ procs = {1}
  /\ pc = [p \in Proc |-> "idle"]
  /\ loc = [p \in Proc |-> Idle]
  /\ last = NoOp
  /\ opCount = 1
  /\ NoQuery /\ NoCounter /\ NoEntity

NextCaches == NextEntity \/ NextQuery

SpecCaches == InitCaches /\ [][NextCaches]_vars

\* ============================================================= cachedCounter
\* ttl of a counter, in ticks
counterTtl == 2

\* what fetchFn can return for an id, and the amounts of incrementBy
Counts == {0, 5}
Amounts == {0 - 5, 1, 5}

\* Number((await redis.get(key)) ?? 0)
CachedCount(s, id) == IF Exists(s, id) THEN s[id].val ELSE 0

RedisIncrBy_Lost(s, k, amount) ==
  IF Exists(s, k) THEN s
  ELSE [x \in DOMAIN s \cup {k} |->
          IF x = k THEN [val |-> amount, exp |-> NoExpiry] ELSE s[x]]

\* redis.incrBy: adds to the integer of the key, which starts at 0 when
\* the key does not exist; the expiry of an existing key stays
RedisIncrBy(s, k, amount) ==
  IF Exists(s, k) THEN [s EXCEPT ![k].val = s[k].val + amount]
  ELSE [x \in DOMAIN s \cup {k} |->
          IF x = k THEN [val |-> amount, exp |-> NoExpiry] ELSE s[x]]

CIdle ==
  [op |-> "none", id |-> 0, amount |-> 0, count |-> 0, ret |-> 0,
   kvCalls |-> 0, fetchCalls |-> 0]

CNoOp == [op |-> "none", id |-> 0, amount |-> 0, ret |-> 0, quiet |-> TRUE]

\* acct[id]: the sum of the amounts incrementBy has added to id, the number
\* of its calls, and whether id has seen nothing but incrementBy calls with
\* a positive amount (no get, no clear, no expiry)
NoAcct == [sum |-> 0, calls |-> 0, pure |-> TRUE]

CounterStart(p, op, id, amount) ==
  /\ pc[p] = "idle" /\ p \in procs /\ opCount < MaxOps
  /\ opCount' = opCount + 1
  /\ loc' = [loc EXCEPT ![p] =
               [CIdle EXCEPT !.op = op, !.id = id, !.amount = amount]]
  /\ pc' = [pc EXCEPT ![p] = IF op = "clear" THEN "cdel" ELSE "cget"]
  /\ acct' = [acct EXCEPT ![id].pure =
                acct[id].pure /\ op = "incrementBy" /\ amount > 0,
                          ![id].calls =
                IF op = "incrementBy" THEN acct[id].calls + 1
                ELSE acct[id].calls]
  /\ UNCHANGED <<now, procs, last, cstore, fetchFn, queryVars, entityVars>>

\* where get goes on returning count: to its caller, or into incrementBy
GetPc(l) == IF l.op = "get" THEN "done" ELSE "incrBy"

\* counter.get: redis.get(key) and the test of cachedCount
CounterGet(p) ==
  /\ pc[p] = "cget"
  /\ LET cachedCount == CachedCount(cstore, loc[p].id)
         l == [loc[p] EXCEPT !.count = cachedCount, !.ret = cachedCount,
                             !.kvCalls = loc[p].kvCalls + 1]
     IN /\ loc' = [loc EXCEPT ![p] = l]
        /\ pc' = [pc EXCEPT ![p] = IF cachedCount # 0 THEN GetPc(l) ELSE "cfetch"]
  /\ UNCHANGED <<now, procs, last, opCount, counterVars, queryVars, entityVars>>

\* const count = (await fetchFn?.(id)) ?? 0
CounterFetch(p) ==
  /\ pc[p] = "cfetch"
  /\ loc' = [loc EXCEPT ![p].count = fetchFn[loc[p].id],
                        ![p].ret = fetchFn[loc[p].id],
                        ![p].fetchCalls = loc[p].fetchCalls + 1]
  /\ pc' = [pc EXCEPT ![p] = "cset"]
  /\ UNCHANGED <<now, procs, last, opCount, counterVars, queryVars, entityVars>>

\* await redis.set(key, count, { EX: ttl }); return count
CounterSet(p) ==
  /\ pc[p] = "cset"
  /\ cstore' = RedisSet(cstore, loc[p].id, loc[p].count, ExAt(now, counterTtl))
  /\ loc' = [loc EXCEPT ![p].kvCalls = loc[p].kvCalls + 1]
  /\ pc' = [pc EXCEPT ![p] = GetPc(loc[p])]
  /\ UNCHANGED <<now, procs, last, opCount, fetchFn, acct, queryVars,
                 entityVars>>

\* await redis.incrBy(key, amount); return count + amount
CounterIncrBy(p) ==
  /\ pc[p] = "incrBy"
  /\ cstore' = RedisIncrBy(cstore, loc[p].id, loc[p].amount)
  /\ acct' = [acct EXCEPT ![loc[p].id].sum = acct[loc[p].id].sum + loc[p].amount]
  /\ loc' = [loc EXCEPT ![p].ret = loc[p].count + loc[p].amount,
                        ![p].kvCalls = loc[p].kvCalls + 1]
  /\ pc' = [pc EXCEPT ![p] = "done"]
  /\ UNCHANGED <<now, procs, last, opCount, fetchFn, queryVars, entityVars>>

\* counter.clear: await redis.del(key)
CounterClear(p) ==
  /\ pc[p] = "cdel"
  /\ cstore' = RedisDel(cstore, loc[p].id)
  /\ loc' = [loc EXCEPT ![p].kvCalls = loc[p].kvCalls + 1]
  /\ pc' = [pc EXCEPT ![p] = "done"]
  /\ UNCHANGED <<now, procs, last, opCount, fetchFn, acct, queryVars,
                 entityVars>>

\* get, incrementBy or clear returns to its caller
CReturn(p) ==
  /\ pc[p] = "done"
  /\ last' = [op |-> loc[p].op, id |-> loc[p].id, amount |-> loc[p].amount,
              ret |-> loc[p].ret, quiet |-> TRUE]
  /\ loc' = [loc EXCEPT ![p] = CIdle]
  /\ pc' = [pc EXCEPT ![p] = "idle"]
  /\ UNCHANGED <<now, procs, opCount, counterVars, queryVars, entityVars>>

InitCounterWith(callers, used) ==
  /\ now = 0
  /\ procs = callers
  /\ pc = [p \in Proc |-> "idle"]
  /\ loc = [p \in Proc |-> CIdle]
  /\ last = CNoOp
  /\ opCount = used
  /\ cstore = <<>>
  /\ fetchFn \in [Ids -> Counts]
  /\ acct = [id \in Ids |-> NoAcct]
  /\ NoQuery /\ NoEntity

NextCounter ==
  \/ \E p \in Proc, id \in Ids : CounterStart(p, "get", id, 0)
  \/ \E p \in Proc, id \in Ids, amount \in Amounts :
       CounterStart(p, "incrementBy", id, amount)
  \/ \E p \in Proc, id \in Ids : CounterStart(p, "clear", id, 0)
  \/ \E p \in Proc : CounterGet(p)
  \/ \E p \in Proc : CounterFetch(p)
  \/ \E p \in Proc : CounterSet(p)
  \/ \E p \in Proc : CounterIncrBy(p)
  \/ \E p \in Proc : CounterClear(p)
  \/ \E p \in Proc : CReturn(p)
  \/ Tick

InitCounter == InitCounterWith({1}, 0)

SpecCounter == InitCounter /\ [][NextCounter]_vars

\* two callers racing on the same counters
InitCounterConc == InitCounterWith({1, 2}, 1)

SpecCounterConc == InitCounterConc /\ [][NextCounter]_vars

\* ------------------------------------------------------------- properties
\* a fetch of one caller has finished and is about to return
FetchDone(p) == p \in procs /\ pc[p] = "done" /\ loc[p].op = "fetch"

\* ... and it follows, with nothing in between, a fetch of the same ids
SecondFetch(p) ==
  /\ procs = {p}
  /\ FetchDone(p)
  /\ last.op = "fetch" /\ last.ids = loc[p].ids /\ last.quiet

\* ... or it follows bust([X]) and read the marker bust left, which is
\* there for the debounce window only
FetchAfterBust(p, X) ==
  /\ procs = {p}
  /\ FetchDone(p)
  /\ last.op = "bust" /\ last.ids = <<X>> /\ loc[p].ids = <<X>>
  /\ X \in DOMAIN loc[p].cache /\ loc[p].cache[X].debounce

\* C1: after bust([X]), a fetch([X]) inside the debounce window calls the
\* lookup and returns what it returned, and when it returns the store entry
\* of X is still the debounce marker.
C1_DebounceSuppression ==
  \A p \in Proc, X \in Ids :
    FetchAfterBust(p, X) =>
      /\ loc[p].lookupCalls >= 1
      /\ loc[p].results = {loc[p].dbResults[i] : i \in DOMAIN loc[p].dbResults}
      /\ Exists(store, X) /\ store[X].val = DebounceEntry(X)

\* the first of two fetch([X]) called the lookup and got nothing for X
FirstFoundNothing(X) ==
  /\ cacheNotFound
  /\ last.ids = <<X>>
  /\ last.lookupCalls >= 1 /\ X \in last.notReturned

\* C2 as stated: with cacheNotFound, after a fetch([X]) whose lookup returned
\* nothing for X, the next fetch([X]) returns nothing and calls no lookup,
\* whatever X's key held when the first fetch ran.
C2_NegativeCachingAnyState ==
  \A p \in Proc, X \in Ids :
    SecondFetch(p) /\ FirstFoundNothing(X) =>
      loc[p].results = {} /\ loc[p].lookupCalls = 0

\* C2 amended: the same, when the first fetch found no entry under X's key;
\* when it found a debounce marker the tombstone is not written and the next
\* fetch([X]) calls the lookup again.
C2_NegativeCaching ==
  \A p \in Proc, X \in Ids :
    SecondFetch(p) /\ FirstFoundNothing(X) =>
      /\ X \notin last.debounced =>
           loc[p].results = {} /\ loc[p].lookupCalls = 0
      /\ X \in last.debounced => loc[p].lookupCalls = 1

C2_Witness ==
  \E p \in Proc, X \in Ids :
    /\ SecondFetch(p) /\ FirstFoundNothing(X)
    /\ X \notin last.debounced
    /\ Exists(store, X) /\ store[X].val.notFound

\* C3 as stated: two consecutive fetch calls with the same ids return the
\* same entities and the second calls no lookup, for every id list and
\* every store.
C3_IdempotenceAnyState ==
  \A p \in Proc :
    SecondFetch(p) =>
      Payload(loc[p].results) = last.ret /\ loc[p].lookupCalls = 0

\* every id the first lookup did not return got a tombstone
AbsentTombstoned ==
  \/ last.notReturned = {}
  \/ cacheNotFound /\ last.notReturned \cap last.debounced = {}

\* C3 amended: the same, provided every requested id the first call's lookup
\* did not return was given a tombstone (cacheNotFound enabled, and no
\* debounce marker under the id's key when the first call read the cache).
C3_Idempotence ==
  \A p \in Proc :
    SecondFetch(p) /\ AbsentTombstoned =>
      Payload(loc[p].results) = last.ret /\ loc[p].lookupCalls = 0

C3_Witness ==
  \E p \in Proc :
    /\ SecondFetch(p) /\ AbsentTombstoned
    /\ last.lookupCalls >= 1
    /\ Len(loc[p].ids) = 2 /\ loc[p].ids[1] # loc[p].ids[2]
    /\ Cardinality(last.ret) = 1

\* the step of p is the setNX or the expire of a notFound write for id
TombstoneWrite(p, id) ==
  /\ pc[p] = "setNX"
  /\ \/ /\ id \in DOMAIN loc[p].toCacheNotFound
        /\ id \notin DOMAIN loc'[p].toCacheNotFound
     \/ /\ id \in loc[p].toExpire
        /\ id \notin loc'[p].toExpire

\* C6: a notFound write never changes the value of a key that holds an
\* entry, whoever wrote that entry.
C6_TombstoneKeepsEntry ==
  [][\A p \in Proc, id \in Ids :
       TombstoneWrite(p, id) /\ Exists(store, id) =>
         Exists(store', id) /\ store'[id].val = store[id].val]_vars

\* a setNX of p met an entry another caller wrote while p was in fetch
C6_Witness ==
  \E p \in Proc, id \in Ids :
    /\ procs = Proc
    /\ id \in loc[p].kept
    /\ id \notin DOMAIN loc[p].cache
    /\ Exists(store, id) /\ ~store[id].val.notFound


\* a run or a bustCacheTag of the only caller has finished
RunDone(p) == procs = {p} /\ pc[p] = "done" /\ loc[p].op = "run"
BustTagDone(p) == procs = {p} /\ pc[p] = "done" /\ loc[p].op = "bustCacheTag"

\* C4: when bustCacheTag(T) has completed, no entry that a run wrote with
\* tag T is left in the store and the tag set of T is gone; a following run
\* of a query whose entry the bust removed reads nothing and executes the
\* data-store query.
C4_TagBulkInvalidation ==
  \A p \in Proc :
    /\ BustTagDone(p) =>
         \A T \in Range(loc[p].arg) :
           /\ tagSets[T] = {}
           /\ \A K \in DOMAIN qstore : T \notin qstore[K].by
    /\ /\ RunDone(p) /\ ~(OptTtl(loc[p].options) = 0)
       /\ last.op = "bustCacheTag" /\ loc[p].cacheKey \in last.deleted
       => loc[p].cachedData = JsNull /\ loc[p].dbCalls = 1

\* both keys had been written with the tag and are removed by one bust
C4_Witness ==
  \E p \in Proc :
    /\ BustTagDone(p)
    /\ loc[p].deleted = CacheKeys /\ Cardinality(CacheKeys) = 2
    /\ DOMAIN qstore = {}

\* C5: once a tagCacheKey(K, T) of a run that stored K and a racing
\* bustCacheTag(T) have both finished, K is either gone or still a member
\* of T's tag set: no cached K written with tag T is outside T's tag set.
C5_TagBustRace ==
  (\A p \in procs : pc[p] = "idle") =>
    \A K \in DOMAIN qstore : \A T \in qstore[K].by : K \in tagSets[T]

\* the run follows, with no expiry in between, a run of the same query
\* that went through the cache
SecondRun(p) ==
  /\ RunDone(p) /\ ~(OptTtl(loc[p].options) = 0)
  /\ last.op = "run" /\ ~(OptTtl(last.options) = 0)
  /\ last.cacheKey = loc[p].cacheKey /\ last.quiet

\* C9: a run that misses executes the query once and stores the result,
\* also the empty array; a later run of the same query returns the stored
\* value, also the empty array, without executing the query.
C9_QueryReadThrough ==
  \A p \in Proc :
    /\ RunDone(p) /\ ~(OptTtl(loc[p].options) = 0) /\ loc[p].cachedData = JsNull
       => /\ loc[p].dbCalls = 1
          /\ loc[p].ret = loc[p].result
          /\ Exists(qstore, loc[p].cacheKey)
          /\ qstore[loc[p].cacheKey].val = loc[p].result
    /\ SecondRun(p) => loc[p].dbCalls = 0 /\ loc[p].ret = last.ret

\* the stored empty array is served
C9_Witness ==
  \E p \in Proc :
    /\ SecondRun(p)
    /\ last.dbCalls = 1 /\ last.ret = JsArray(<<>>)
    /\ loc[p].ret = JsArray(<<>>)

\* a step of a run called with options.ttl = 0
BypassStep(p) ==
  /\ loc[p].op = "run" /\ OptTtl(loc[p].options) = 0
  /\ pc[p] \notin {"done", "failed"} /\ pc'[p] # pc[p]

\* C10: a run with options.ttl = 0 executes the query and returns its
\* result (or ends rejected when the query fails) in one step that neither
\* reads nor writes the store: no get, no set of the cache key, no addition
\* to a tag set.
C10_QueryBypass ==
  [][\A p \in Proc :
       BypassStep(p) =>
         /\ qstore' = qstore /\ tagSets' = tagSets
         /\ loc'[p].kvCalls = 0
         /\ pc'[p] \in {"done", "failed"}
         /\ loc'[p].dbCalls = 1
         /\ pc'[p] = "done" => loc'[p].ret = loc'[p].result]_vars

\* a bypassing run with a tag has returned while the store holds an entry
C10_Witness ==
  \E p \in Proc :
    /\ RunDone(p) /\ OptTtl(loc[p].options) = 0
    /\ TagGiven(loc[p].options.tag) /\ TagList(loc[p].options.tag) # <<>>
    /\ loc[p].kvCalls = 0 /\ loc[p].dbCalls = 1
    /\ CacheKey(loc[p].query) \in DOMAIN qstore


\* C7: with nothing but incrementBy calls on a counter id (amounts positive,
\* no clear, no expiry), once all calls have finished the stored integer is
\* the base value, which fetchFn gives when there was no entry, plus the
\* sum of the amounts.
C7_IncrementsNotLost ==
  (\A p \in procs : pc[p] = "idle") =>
    \A id \in DOMAIN acct :
      acct[id].pure /\ acct[id].calls >= 1 =>
        Exists(cstore, id) /\ cstore[id].val = fetchFn[id] + acct[id].sum

\* the get follows, with nothing in between, incrementBy(id, 5)
GetAfterIncrement(p) ==
  /\ procs = {p} /\ pc[p] = "done" /\ loc[p].op = "get"
  /\ last.op = "incrementBy" /\ last.id = loc[p].id /\ last.amount = 5
  /\ last.quiet

\* C8: get(id) right after incrementBy(id, 5) returns at least the value
\* incrementBy returned.
C8_CounterMonotonic ==
  \A p \in Proc : GetAfterIncrement(p) => loc[p].ret >= last.ret

\* the increment brought the stored integer from -5 to 0
C8_Witness ==
  \E p \in Proc :
    GetAfterIncrement(p) /\ last.ret = 0 /\ loc[p].fetchCalls = 1

\* the increment was added to a cached count
C8_WitnessCached ==
  \E p \in Proc :
    GetAfterIncrement(p) /\ last.ret > 5 /\ loc[p].fetchCalls = 0

\* ------------------------------------------------------------------- C11
\* a refresh of the only caller has issued its last command
RefreshDone(p) ==
  procs = {p} /\ pc[p] = "done" /\ loc[p].op = "refresh"

IsPositive(e) == ~e.notFound /\ ~e.debounce /\ e.payload # NoPayload

\* C11: refresh calls the lookup collaborator once with the force flag and
\* issues no read of the cache; when it has completed with no other caller
\* around, every requested id the collaborator returned holds a positive
\* entry with the returned entity and the cachedAt of this call, and every
\* requested id it did not return has no entry.
C11_RefreshPostcondition ==
  \A p \in Proc :
    /\ (p \in procs /\ loc[p].op = "refresh") =>
          /\ loc[p].reads = 0
          /\ pc[p] # "refreshLookup" =>
                loc[p].lookupCalls = 1 /\ loc[p].force
                  /\ loc[p].asked = Range(loc[p].ids)
    /\ RefreshDone(p) =>
          \A X \in Range(loc[p].ids) :
            IF loc[p].answers[X] # NoPayload
            THEN /\ Exists(store, X)
                 /\ IsPositive(store[X].val)
                 /\ store[X].val.payload = loc[p].answers[X]
                 /\ store[X].val.cachedAt = now
            ELSE ~Exists(store, X)

\* a refresh right after a bust of the same ids: it replaced a marker by a
\* positive entry and removed the marker of an id that was not returned
C11_Witness ==
  \E p \in Proc :
    /\ RefreshDone(p)
    /\ last.op = "bust" /\ last.quiet
    /\ Range(last.ids) = {1, 2} /\ Range(loc[p].ids) = {1, 2}
    /\ loc[p].answers[1] # NoPayload
    /\ loc[p].answers[2] = NoPayload

\* ------------------------------------------------------------------- C12
\* the reference fetch: one multi-get over all ids, one lookup over all the
\* misses (d: what the source of truth holds), the same write-back; it
\* yields the result set and the store it leaves
RefFetch(s, ids, d, t) ==
  LET uniq == Range(ids)
      cache == [id \in {x \in uniq : Exists(s, x)} |-> s[id].val]
      misses == {id \in uniq : IsMiss(cache, id)}
      dontCache == {id \in uniq : IsDontCache(cache, t - debounceTime, id)}
      found == {id \in misses : d[id] # NoPayload}
      absent == IF cacheNotFound THEN misses \ found ELSE {}
      written == (found \ dontCache) \cup absent
  IN [results |-> {cache[id] : id \in {x \in uniq : IsHit(cache, x)}}
                    \cup {Entity(id, d[id]) : id \in found},
      store |-> [k \in DOMAIN s \cup written |->
                   IF k \in found \ dontCache
                   THEN [val |-> WithCachedAt(Entity(k, d[k]), t),
                         exp |-> t + ttl]
                   ELSE IF k \in absent
                   THEN [val |-> IF Exists(s, k) THEN s[k].val
                                 ELSE NotFoundEntry(k, t),
                         exp |-> t + ttl]
                   ELSE s[k]]]

\* C12: whatever the id list (duplicates included) and the store, a fetch
\* that reads and looks up in batches returns the results and leaves the
\* entries of the reference fetch that does one multi-get and one lookup
\* over all ids; no mGet carries more keys than the multi-get batch size
\* and no lookup call more ids than the lookup batch size.
C12_BatchChunking ==
  \A p \in Proc :
    /\ (p \in procs /\ loc[p].op = "fetch") =>
          /\ loc[p].maxKeys <= mGetBatchSize
          /\ loc[p].maxBatch <= lookupBatchSize
    /\ (FetchDone(p) /\ procs = {p} /\ Len(loc[p].ids) > 0) =>
          /\ loc[p].asked = Range(loc[p].cacheMisses)
          /\ DOMAIN loc[p].answers = loc[p].asked
          /\ LET ref == RefFetch(loc[p].before, loc[p].ids, loc[p].answers, now)
             IN loc[p].results = ref.results /\ store = ref.store

\* a fetch of two ids that took two mGets and two lookups, one id found and
\* written, the other absent
C12_Witness ==
  \E p \in Proc :
    /\ FetchDone(p) /\ procs = {p}
    /\ Len(loc[p].ids) = mGetBatchSize + 1
    /\ loc[p].reads = 2
    /\ Len(loc[p].cacheMisses) = lookupBatchSize + 1
    /\ loc[p].lookupCalls = 2
    /\ \E X, Y \in loc[p].asked :
         loc[p].answers[X] # NoPayload /\ loc[p].answers[Y] = NoPayload

\* the same fetch over a list with a duplicate: two mGets of the same key
C12_WitnessDuplicate ==
  \E p \in Proc :
    /\ FetchDone(p) /\ procs = {p}
    /\ Len(loc[p].ids) = 2 /\ loc[p].ids[1] = loc[p].ids[2]
    /\ loc[p].reads = 2
    /\ loc[p].results # {}

\* ------------------------------------------------------------------- C13
\* C13: when the lookup collaborator fails in a batch of a fetch, or the
\* data-store query fails in a run, the call ends rejected, it hands no
\* result to the append collaborator or to its caller, and the store is as
\* the call found it: no entry, tombstone or tag has been written.
C13_FailurePropagation ==
  \A p \in Proc :
    (p \in procs /\ loc[p].error) =>
      /\ pc[p] = "failed"
      /\ IF loc[p].op = "fetch"
         THEN /\ store = loc[p].before
              /\ loc[p].writes = 0
              /\ loc[p].appendCalls = 0
         ELSE /\ qstore = loc[p].before.qstore
              /\ tagSets = loc[p].before.tagSets
              /\ loc[p].ret = JsNull

\* a fetch whose second lookup batch failed after hits had been collected
\* from a store that held an entry, and a run that failed after a miss
C13_Witness ==
  \E p \in Proc :
    /\ p \in procs /\ pc[p] = "failed" /\ loc[p].op = "fetch"
    /\ loc[p].lookupCalls = 2
    /\ DOMAIN loc[p].dbResults # {}
    /\ DOMAIN store # {}

C13_WitnessRun ==
  \E p \in Proc :
    /\ p \in procs /\ pc[p] = "failed" /\ loc[p].op = "run"
    /\ loc[p].cacheKey # <<>>
    /\ DOMAIN qstore # {}

\* ------------------------------------------------------------------- C14
IsTombstone(e) == e.notFound /\ ~e.debounce /\ e.payload = NoPayload

IsMarker(e) == e.debounce /\ ~e.notFound /\ e.payload = NoPayload

\* C14: in every reachable state, callers interleaved or not, each entry of
\* the entity cache is a positive entry (payload and cachedAt, no flag), a
\* notFound tombstone or a debounce marker, under the key of its own id;
\* notFound and debounce are never set together and a positive entry
\* always carries a cachedAt.
C14_EntryVariants ==
  \A id \in DOMAIN store :
    LET e == store[id].val
    IN /\ e.id = id
       /\ ~(e.notFound /\ e.debounce)
       /\ \/ IsPositive(e) /\ e.cachedAt # Undefined
          \/ IsTombstone(e)
          \/ IsMarker(e)

\* the three variants side by side: two callers, a fetch that wrote a
\* positive entry or a tombstone and a bust that wrote a marker
C14_Witness ==
  /\ DOMAIN store = {1, 2}
  /\ IsMarker(store[1].val)
  /\ IsPositive(store[2].val) \/ IsTombstone(store[2].val)
  /\ \E p, q \in procs : loc[p].op = "fetch" /\ loc[q].op = "bust"

\* ------------------------------------------------------------------- C15
\* a bust of the only caller has issued its last command
BustDone(p) ==
  procs = {p} /\ pc[p] = "done" /\ loc[p].op = "bust"

\* C15: when a bust has completed with no other caller around, every id it
\* was given holds a debounce marker that expires one debounce window
\* later, whatever the key held before; the fetch that follows hands every
\* such id to the lookup collaborator and returns for it nothing read from
\* the cache; a bust of the empty list issues no redis command.
C15_BustPostcondition ==
  \A p \in Proc :
    /\ BustDone(p) =>
          /\ \A X \in Range(loc[p].ids) :
                /\ Exists(store, X)
                /\ IsMarker(store[X].val)
                /\ store[X].exp = now + debounceTime
          /\ loc[p].ids = <<>> => loc[p].kvCalls = 0
    /\ (FetchDone(p) /\ procs = {p} /\ last.op = "bust") =>
          \A X \in Range(last.ids) \cap Range(loc[p].ids) :
            /\ X \in loc[p].asked
            /\ \A e \in loc[p].results :
                 e.id = X => e.cachedAt = Undefined /\ e.payload = loc[p].answers[X]

\* a bust of two ids that a fetch had just cached
C15_Witness ==
  \E p \in Proc :
    /\ BustDone(p)
    /\ Range(loc[p].ids) = {1, 2}
    /\ last.op = "fetch" /\ last.quiet
    /\ {x[1] : x \in last.ret} = {1, 2}

\* the fetch after a bust, inside the window, that found the entity
C15_WitnessFetch ==
  \E p \in Proc :
    /\ FetchDone(p) /\ procs = {p}
    /\ last.op = "bust" /\ last.quiet
    /\ \E X \in Range(last.ids) \cap Range(loc[p].ids) :
         X \in {e.id : e \in loc[p].results}

\* the bust of the empty list
C15_WitnessEmpty ==
  \E p \in Proc : BustDone(p) /\ loc[p].ids = <<>> /\ DOMAIN store # {}

\* ------------------------------------------------------------------- C16
\* C16: after bust([X]), a fetch([X]) that runs once the debounce window has
\* elapsed and whose lookup returns an entity leaves a positive entry for X
\* that expires one ttl later, and the fetch([X]) that follows it is served
\* from the cache without a lookup call.
C16_RecachingResumes ==
  \A p \in Proc :
    /\ (FetchDone(p) /\ procs = {p} /\ loc[p].afterBust) =>
          LET X == loc[p].ids[1]
          IN X \in DOMAIN loc[p].dbResults =>
               /\ Exists(store, X)
               /\ store[X].val = WithCachedAt(loc[p].dbResults[X], now)
               /\ IsPositive(store[X].val)
               /\ store[X].exp = now + ttl
    /\ (SecondFetch(p) /\ last.afterBust /\ last.ret # {}) =>
          /\ loc[p].lookupCalls = 0
          /\ Payload(loc[p].results) = last.ret

\* bust([X]), a tick, fetch([X]) that found the entity, fetch([X]) again
C16_Witness ==
  \E p \in Proc :
    /\ SecondFetch(p) /\ last.afterBust /\ last.ret # {}
    /\ loc[p].results # {}

\* ------------------------------------------------------------------- C17
\* C17: on an instance created with cacheNotFound = false no call ever
\* leaves a notFound tombstone in the store, a fetch hands every id that has
\* no cache entry to the lookup collaborator, and when the collaborator did
\* not return an id, the next fetch of the same ids hands it that id again.
C17_NotFoundDisabled ==
  ~cacheNotFound =>
    /\ \A id \in DOMAIN store : ~store[id].val.notFound
    /\ \A p \in Proc :
         /\ FetchDone(p) =>
               /\ \A X \in Range(loc[p].ids) :
                    X \notin DOMAIN loc[p].cache => X \in loc[p].asked
               /\ DOMAIN loc[p].toCacheNotFound = {}
               /\ loc[p].kept = {}
         /\ SecondFetch(p) =>
               \A X \in last.notReturned :
                 X \in loc[p].asked /\ X \in Range(loc[p].cacheMisses)

\* two fetches of the same ids in a row, the lookup returning nothing for
\* an id either time
C17_Witness ==
  \E p \in Proc :
    /\ ~cacheNotFound
    /\ SecondFetch(p)
    /\ \E X \in last.notReturned :
         X \in loc[p].asked /\ X \notin DOMAIN loc[p].dbResults
    /\ loc[p].lookupCalls >= 1

\* ------------------------------------------------------------------- C18
\* the mGet calls and the lookupFn calls one fetch has to make
NumMGets(l) == Len(chunk(l.ids, mGetBatchSize))

NumLookups(l) == Len(chunk(l.cacheMisses, lookupBatchSize))

WritesLeft(l) ==
  DOMAIN l.toCache # {} \/ DOMAIN l.toCacheNotFound # {} \/ l.toExpire # {}

\* C18: in one fetch every mGet has been made when the first lookup call is
\* made, every lookup call when the first write goes out, and every write
\* when the append collaborator is called; a fetch that returns has called
\* it exactly once, with the accumulated results, misses or no misses; a
\* fetch of the empty list returns nothing and has made no redis command,
\* no lookup call and no append call.
C18_StepOrdering ==
  \A p \in Proc :
    (p \in procs /\ loc[p].op = "fetch") =>
      LET l == loc[p]
      IN /\ pc[p] = "mGet" => l.lookupCalls = 0 /\ l.writes = 0
         /\ l.lookupCalls > 0 => l.reads = NumMGets(l)
         /\ pc[p] = "lookup" => l.writes = 0 /\ l.lookupCalls < NumLookups(l)
         /\ l.writes > 0 =>
              l.reads = NumMGets(l) /\ l.lookupCalls = NumLookups(l)
         /\ pc[p] \in {"mGet", "lookup", "set", "setNX", "append", "failed"} =>
              l.appendCalls = 0
         /\ l.appendCalls > 0 => ~WritesLeft(l) /\ l.reads = NumMGets(l)
         /\ (pc[p] = "done" /\ l.ids # <<>>) =>
              /\ ~WritesLeft(l)
              /\ appendFn => l.appendCalls = 1 /\ l.appended = l.results
         /\ (pc[p] = "done" /\ l.ids = <<>>) =>
              /\ l.results = {} /\ l.kvCalls = 0
              /\ l.lookupCalls = 0 /\ l.appendCalls = 0

\* a fetch with two mGets, two lookup calls, writes and one append call
C18_Witness ==
  \E p \in Proc :
    /\ FetchDone(p)
    /\ loc[p].reads = 2 /\ loc[p].lookupCalls = 2 /\ loc[p].writes >= 2
    /\ loc[p].appendCalls = 1 /\ loc[p].appended # {}

\* a fetch served from the cache alone still calls the append collaborator
C18_WitnessNoMiss ==
  \E p \in Proc :
    /\ FetchDone(p)
    /\ loc[p].ids # <<>> /\ loc[p].cacheMisses = <<>>
    /\ loc[p].appendCalls = 1 /\ loc[p].appended # {}

\* the fetch of the empty list on a store that holds entries
C18_WitnessEmpty ==
  \E p \in Proc :
    FetchDone(p) /\ loc[p].ids = <<>> /\ DOMAIN store # {}

\* ------------------------------------------------------------------- C19
\* C19: whenever no call is in flight, each entry of the entity cache has
\* an expiry, no later than one ttl from now (one debounce window for a
\* debounce marker): no call leaves an entry that never expires.
C19_EveryEntryExpires ==
  (\A p \in Proc : pc[p] = "idle") =>
    \A id \in DOMAIN store :
      /\ store[id].exp # NoExpiry
      /\ store[id].exp <= now + (IF IsMarker(store[id].val)
                                 THEN debounceTime ELSE ttl)

\* ------------------------------------------------------------------- C20
\* C20: when a bust of X was issued after a fetch had looked X up (the
\* source changed in between) and both have issued their last command, the
\* store does not hold the positive entry that fetch made of its looked-up
\* value: the older value does not replace the debounce marker.
C20_NoStaleRepopulation ==
  \A q \in Proc :
    (FetchDone(q) /\ \A r \in Proc \ {q} : pc[r] \in {"idle", "done"}) =>
      \A X \in loc[q].overtaken \cap DOMAIN loc[q].dbResults :
        ~ /\ Exists(store, X)
          /\ store[X].val = WithCachedAt(loc[q].dbResults[X], loc[q].cachedAt)
====
